---- MODULE Spec2Model ----
(***************************************************************************)
(* Avito message worker: the poll/dispatch loop (AvitoWorker), the         *)
(* Source-API client (AvitoAPIClient) with its 401 re-authentication, and  *)
(* the Redis-backed Dialog state and statistics records (RedisClient).     *)
(* The messaging platform, the agent and the store are the environment:    *)
(* every response they give is a nondeterministic choice.                  *)
(***************************************************************************)
EXTENDS Integers, Sequences, FiniteSets, TLC

\* ------------------------------------------------------------------ bounds

\* Conversations on the platform.
NumChats == 2
\* Messages that ever arrive on the platform (all conversations together).
MaxMsgs == 2
\* Distinct creation timestamps a message can carry.
MaxTime == 2
\* Poll cycles the loop runs.
MaxCycles == 2
\* Distinct bearer tokens the platform hands out before reusing one.
NumTokens == 2
\* Client calls made in the client-only specification.
MaxCalls == 2
\* Incidents of the store: worker steps in which a store call fails, and
\* expirations of a Dialog state key.
MaxStoreFaults == 1
\* Chat summaries the platform lists in all cycles together.
MaxListed == 2
\* The 24-hour TTL of a Dialog state key, in ticks of the store's clock.
DialogTtl == 2
\* Fragments the agent's stream yields for one answer.
MaxParts == 4
\* Messages the queue lists hold together.
MaxQueued == 1
\* Stop signals (SIGINT, SIGTERM) that arrive while the loop runs.
MaxStops == 2

\* get_chat_messages(limit=5): only the most recent messages are fetched.
FetchLimit == 5

Chats == 1..NumChats
MsgIds == 1..MaxMsgs
\* Python's None, for a text, for a record, for a time and for a message id.
None == "None"
Absent == [absent |-> TRUE]
NoTime == 0
NoMsg == 0
\* A chat summary of the listing without an 'id' (chat.get('id') is falsy).
NoId == 0
\* content.get('text', '') is empty, or content is not a dict.
NoText == 0
\* self._access_token is None.
NoToken == 0

VARIABLES
    pc,            \* where the worker's coroutine is suspended
    running,       \* AvitoWorker._running
    access_token,  \* AvitoAPIClient._access_token
    unread_chats,  \* local of _poll_avito_loop: the listing of this cycle
    idx,           \* position of the for-loop in unread_chats
    last_message,  \* local of _poll_avito_loop: the selected message
    answer,        \* local of _process_message_direct: the agent's answer
    dialogs,       \* store: avito:dialog:<chat_id> records (Absent: no key)
    stats,         \* store: avito:stats record (Absent: no key)
    faults,        \* store: incidents so far (failed steps, expired keys)
    listed,        \* platform: chat summaries listed so far
    inbox,         \* platform: the messages of every conversation
    cycle,         \* poll cycles started so far (the clock of the model)
    trace,         \* history: what this cycle did for each conversation
    replies,       \* history: replies delivered per inbound message id
    turns,         \* history: dispatches per conversation and the last one
    call,          \* history: the wire log of the last client call
    agent,         \* AgentClient: "none", "open" (entered), "closed" (exited)
    redis,         \* RedisClient connection: "none", "open", "closed"
    ttl,           \* store: time to live left of every Dialog state key
    queues,        \* store: the avito:messages:queue and :processing lists
    failures,      \* history: failed dispatches per inbound message id
    probe,         \* history: the last operation of a client called on its own
    exits          \* AgentClient: calls of the MCP client's __aexit__ so far

vars == <<pc, running, access_token, unread_chats, idx, last_message, answer,
          dialogs, stats, faults, inbox, listed, cycle, trace, replies, turns,
          call, agent, redis, ttl, queues, failures, probe, exits>>

workerVars == <<pc, running, unread_chats, idx, last_message, answer>>
storeVars == <<dialogs, stats, faults>>
platformVars == <<inbox, listed>>
historyVars == <<trace, replies, turns>>
lifeVars == <<agent, redis, exits>>
sideVars == <<call, queues, probe>>

\* ------------------------------------------------- Source-API client

\* HTTP status of a response; 0 stands for a transport error (httpx raises).
Status == {200, 401, 500, 0}

\* The platform issues a token that differs from the one presented.
FreshToken(old) == (old % NumTokens) + 1

TokenExchange(s) == [kind |-> "token", status |-> s, bearer |-> NoToken]
Request(s, token) == [kind |-> "request", status |-> s, bearer |-> token]

\* _get_access_token: POST /token; returns the token or raises RuntimeError.
GetAccessToken(old) ==
    { [ok |-> s = 200,
       token |-> IF s = 200 THEN FreshToken(old) ELSE NoToken,
       ex |-> TokenExchange(s)] : s \in {200, 500, 0} }

\* A variant that requests a new token at the start of every call.
EnsureToken_Always(token) ==
    { [ok |-> g.ok,
       token |-> IF g.ok THEN g.token ELSE token,
       log |-> <<g.ex>>] : g \in GetAccessToken(token) }

\* _ensure_token: request a token only when none is cached.
EnsureToken(token) ==
    IF token = NoToken
    THEN { [ok |-> g.ok,
            token |-> IF g.ok THEN g.token ELSE token,
            log |-> <<g.ex>>] : g \in GetAccessToken(token) }
    ELSE { [ok |-> TRUE, token |-> token, log |-> <<>>] }

\* response.raise_for_status() on the last response, then return it.
RaiseForStatus(token, log, s) ==
    [ok |-> s = 200, token |-> token, log |-> log]

\* A variant that keeps re-authenticating while the response is 401.
RequestWithRetry_Again(token) ==
    UNION { IF ~e.ok
            THEN { [ok |-> FALSE, token |-> e.token, log |-> e.log] }
            ELSE UNION {
              IF s1 # 401
              THEN { RaiseForStatus(e.token, Append(e.log, Request(s1, e.token)), s1) }
              ELSE UNION {
                IF ~g.ok
                THEN { [ok |-> FALSE, token |-> e.token,
                        log |-> e.log \o <<Request(s1, e.token), g.ex>>] }
                ELSE UNION {
                  IF s2 # 401
                  THEN { RaiseForStatus(g.token,
                           e.log \o <<Request(s1, e.token), g.ex,
                                      Request(s2, g.token)>>, s2) }
                  ELSE { RaiseForStatus(g.token,
                           e.log \o <<Request(s1, e.token), g.ex,
                                      Request(s2, g.token), g.ex,
                                      Request(s3, g.token)>>, s3)
                         : s3 \in Status }
                  : s2 \in Status }
                : g \in GetAccessToken(e.token) }
              : s1 \in Status }
            : e \in EnsureToken(token) }

\* _request_with_retry: every run the platform's responses allow. A run is
\* [ok: the response was returned (no exception), token: the token cached
\* afterwards, log: the exchanges made, in order].
RequestWithRetry(token) ==
    UNION { IF ~e.ok
            THEN { [ok |-> FALSE, token |-> e.token, log |-> e.log] }
            ELSE UNION {
              IF s1 = 0
              THEN { [ok |-> FALSE, token |-> e.token,
                      log |-> Append(e.log, Request(s1, e.token))] }
              ELSE IF s1 = 401
              THEN UNION {
                IF ~g.ok
                THEN { [ok |-> FALSE, token |-> e.token,
                        log |-> e.log \o <<Request(s1, e.token), g.ex>>] }
                ELSE { RaiseForStatus(g.token,
                         e.log \o <<Request(s1, e.token), g.ex,
                                    Request(s2, g.token)>>, s2)
                       : s2 \in Status }
                : g \in GetAccessToken(e.token) }
              ELSE { RaiseForStatus(e.token, Append(e.log, Request(s1, e.token)), s1) }
              : s1 \in Status }
            : e \in EnsureToken(token) }

\* A token request of the run failed: _get_access_token raised RuntimeError.
TokenFailed(r) ==
    \E i \in DOMAIN r.log : r.log[i].kind = "token" /\ r.log[i].status # 200

Apis == {"get_chats", "get_chat_messages", "send_message", "mark_chat_as_read"}

\* What a client method hands to its caller for a run r: get_chats,
\* get_chat_messages and send_message return the body or raise RuntimeError;
\* mark_chat_as_read returns data.get('ok', False), and False on any exception.
ApiResult(api, r, body_ok) ==
    IF api = "mark_chat_as_read"
    THEN (IF r.ok /\ body_ok THEN "true" ELSE "false")
    ELSE (IF r.ok THEN "returned" ELSE "raised")

\* One client method called on its own.
ClientCall(api) ==
    /\ call.n < MaxCalls
    /\ \E r \in RequestWithRetry(access_token), body_ok \in BOOLEAN :
         /\ access_token' = r.token
         /\ call' = [n |-> call.n + 1, api |-> api, log |-> r.log,
                     before |-> access_token,
                     result |-> ApiResult(api, r, body_ok)]
    /\ UNCHANGED <<workerVars, storeVars, platformVars, cycle, historyVars,
                   lifeVars, ttl, queues, failures, probe>>

\* ------------------------------------------------------ agent client

\* A text is a sequence of characters; the agent's stream yields fragments,
\* each a non-empty text.
Chars == {" ", "a", "b"}
Fragments == { <<ch>> : ch \in Chars }
Streams == UNION { [1..n -> Fragments] : n \in 0..MaxParts }

\* The fixed apology of get_answer (lines 104-107), as one sign that no
\* stream produces.
FallbackAnswer == <<"Sorry, no answer could be obtained. Try to rephrase the question.">>

\* ''.join(answer_parts)
RECURSIVE Join(_)
Join(parts) == IF parts = <<>> THEN <<>> ELSE Head(parts) \o Join(Tail(parts))

\* str.strip(): drop the whitespace at both ends.
RECURSIVE StripLeft(_)
StripLeft(t) == IF t # <<>> /\ Head(t) = " " THEN StripLeft(Tail(t)) ELSE t
RECURSIVE StripRight(_)
StripRight(t) ==
    IF t # <<>> /\ t[Len(t)] = " " THEN StripRight(SubSeq(t, 1, Len(t) - 1)) ELSE t
Strip(t) == StripRight(StripLeft(t))

\* A variant that joins the fragments in the reverse of their arrival order.
AgentGetAnswer_Reversed(parts, raises, ready) ==
    IF ~ready
    THEN [raised |-> TRUE, cause |-> "not initialised", value |-> <<>>]
    ELSE IF raises
    THEN [raised |-> TRUE, cause |-> "stream", value |-> <<>>]
    ELSE LET back == [i \in 1..Len(parts) |-> parts[Len(parts) + 1 - i]]
             text == Strip(Join(back))
         IN [raised |-> FALSE, cause |-> None,
             value |-> IF text = <<>> THEN FallbackAnswer ELSE text]

\* AgentClient.get_answer: parts are the fragments the stream yields, raises
\* says whether the stream raises after them, ready whether the agent was
\* built. RuntimeError carries the text of its cause.
AgentGetAnswer(parts, raises, ready) ==
    IF ~ready
    THEN [raised |-> TRUE, cause |-> "not initialised", value |-> <<>>]
    ELSE IF raises
    THEN [raised |-> TRUE, cause |-> "stream", value |-> <<>>]
    ELSE LET text == Strip(Join(parts))
         IN [raised |-> FALSE, cause |-> None,
             value |-> IF text = <<>> THEN FallbackAnswer ELSE text]

\* get_answer called on its own, for any stream.
AgentCall ==
    /\ \E parts \in Streams, raises \in BOOLEAN, ready \in BOOLEAN :
         probe' = [op |-> "get_answer", parts |-> parts, raises |-> raises,
                   ready |-> ready,
                   result |-> AgentGetAnswer(parts, raises, ready)]
    /\ UNCHANGED <<workerVars, access_token, storeVars, platformVars, cycle,
                   historyVars, call, queues, lifeVars, ttl, failures>>

\* ------------------------------------------------------ platform

\* A message as the v3 API returns it: id, author_id, direction, is_read,
\* content.text (NoText, or a text that names the message it belongs to so
\* that a reply can be traced to it) and created.
Message(id, author_id, direction, text, created) ==
    [id |-> id, author_id |-> author_id, direction |-> direction,
     is_read |-> FALSE, text |-> text, created |-> created]

\* Ids of the messages on the platform.
Present == UNION { { inbox[c][i].id : i \in 1..Len(inbox[c]) } : c \in Chats }

\* The messages that can arrive: an inbound text with any timestamp, and an
\* inbound message without text (an image, say) or an outbound message with
\* the newest timestamp, where it would shadow every inbound text.
Arrivals ==
    { <<"in", t>> : t \in 1..MaxTime } \cup { <<"in_notext", MaxTime>>, <<"out", MaxTime>> }

\* A message arrives in conversation c.
UserSends(c) ==
    /\ Cardinality(Present) < MaxMsgs
    /\ \E a \in Arrivals :
         LET id == Cardinality(Present) + 1
             kind == a[1]
             t == a[2]
             m == Message(id, IF kind = "out" THEN NoId ELSE c,
                          IF kind = "out" THEN "out" ELSE "in",
                          IF kind = "in_notext" THEN NoText ELSE id, t)
         IN inbox' = [inbox EXCEPT ![c] = Append(@, m)]
    /\ UNCHANGED <<workerVars, access_token, storeVars, listed, cycle, historyVars, sideVars, lifeVars, ttl, failures>>

\* The platform marks every message of the conversation read.
MarkedRead(box) == [i \in 1..Len(box) |-> [box[i] EXCEPT !.is_read = TRUE]]

\* The last n elements of s.
LastN(s, n) == IF Len(s) <= n THEN s ELSE SubSeq(s, Len(s) - n + 1, Len(s))

\* Every order in which the platform may return the messages s.
Orders(s) ==
    { [i \in 1..Len(s) |-> s[p[i]]] :
        p \in { q \in [1..Len(s) -> 1..Len(s)] :
                  \A i, j \in 1..Len(s) : q[i] = q[j] => i = j } }

\* Every listing get_unread_chats may return: conversations in any order,
\* each at most once, possibly with summaries that carry no id.
Listings ==
    { t \in UNION { [1..n -> Chats \cup {NoId}] : n \in 0..NumChats } :
        \A i, j \in 1..Len(t) : (i < j /\ t[i] = t[j]) => t[i] = NoId }

\* ------------------------------------------------------ selection

\* Lines 97-118 of the loop: keep the inbound, unread messages with a text.
UnreadIncoming(messages) ==
    SelectSeq(messages,
              LAMBDA m : m.direction = "in" /\ ~m.is_read /\ m.text # NoText)

\* list.sort(key=created): a stable sort, ascending.
RECURSIVE SortByCreated(_)
SortByCreated(s) ==
    IF Len(s) <= 1 THEN s
    ELSE LET rest == SortByCreated(SubSeq(s, 1, Len(s) - 1))
             x == s[Len(s)]
             k == Cardinality({ i \in 1..Len(rest) : rest[i].created <= x.created })
         IN SubSeq(rest, 1, k) \o <<x>> \o SubSeq(rest, k + 1, Len(rest))

\* A variant that takes the first message of the sorted list.
SelectLast_First(messages) ==
    LET sorted == SortByCreated(UnreadIncoming(messages))
    IN IF sorted = <<>> THEN Absent ELSE sorted[1]

\* A variant that does not filter on the read flag or the text.
SelectLast_Unfiltered(messages) ==
    LET sorted == SortByCreated(SelectSeq(messages, LAMBDA m : m.direction = "in"))
    IN IF sorted = <<>> THEN Absent ELSE sorted[Len(sorted)]

\* Lines 120-129: unread_incoming_messages[-1] after the sort, if any.
SelectLast(messages) ==
    LET sorted == SortByCreated(UnreadIncoming(messages))
    IN IF sorted = <<>> THEN Absent ELSE sorted[Len(sorted)]

\* ------------------------------------------------------ store

\* WorkerStats(): the defaults of the model class.
WorkerStats ==
    [total_messages |-> 0, completed_messages |-> 0, failed_messages |-> 0,
     active_dialogs |-> 0, last_poll_time |-> NoTime, last_error |-> None]

\* DialogState(chat_id=..., user_id=...): the defaults of the model class.
DialogState(chat_id, user_id) ==
    [chat_id |-> chat_id, user_id |-> user_id, last_message_id |-> NoMsg,
     last_activity |-> cycle, message_count |-> 0]

\* A variant that never finds the stored record.
GetStats_Fresh(read_ok) == WorkerStats

\* get_stats: the stored record; zeros when the key is absent or the read fails.
GetStats(read_ok) == IF read_ok /\ stats # Absent THEN stats ELSE WorkerStats

\* get_active_dialogs_count: the number of avito:dialog:* keys; 0 on failure.
GetActiveDialogsCount(read_ok) ==
    IF read_ok THEN Cardinality({ c \in Chats : dialogs[c] # Absent }) ELSE 0

\* save_stats: overwrite the record; on failure the store keeps what it had.
SaveStats(new, write_ok) == IF write_ok THEN new ELSE stats

\* A variant that reads the wrong key and never finds the record.
GetDialogState_Miss(chat_id, read_ok) == Absent

\* get_dialog_state: the record, or Absent (None) when there is no key or the read fails.
GetDialogState(chat_id, read_ok) == IF read_ok THEN dialogs[chat_id] ELSE Absent

\* save_dialog_state: setex of the record; on failure nothing is stored.
SaveDialogState(state, write_ok) ==
    IF write_ok THEN [dialogs EXCEPT ![state.chat_id] = state] ELSE dialogs

\* A variant in which a save keeps the time a key has left.
Setex_Keep(chat_id, write_ok) ==
    IF write_ok
    THEN [ttl EXCEPT ![chat_id] = IF @ > 0 THEN @ ELSE DialogTtl]
    ELSE ttl

\* setex(dialog_key, 86400, ...): a successful save restarts the full TTL.
Setex(chat_id, write_ok) ==
    IF write_ok THEN [ttl EXCEPT ![chat_id] = DialogTtl] ELSE ttl

\* The outcomes (TRUE: success) of the n store calls of one worker step.
StoreOutcomes(n) ==
    IF faults < MaxStoreFaults
    THEN [1..n -> BOOLEAN]
    ELSE { [i \in 1..n |-> TRUE] }
Faulty(io) == IF \E i \in DOMAIN io : ~io[i] THEN 1 ELSE 0

\* A variant that does not count the attempt in total_messages.
UpdateStats_NoTotal(last_poll_time, last_error, increment_total, increment_completed, increment_failed, io) ==
    LET s0 == GetStats(io[1])
        s1 == [s0 EXCEPT
                 !.active_dialogs = GetActiveDialogsCount(io[2]),
                 !.completed_messages = IF increment_completed THEN @ + 1 ELSE @,
                 !.failed_messages = IF increment_failed THEN @ + 1 ELSE @,
                 !.last_poll_time = IF last_poll_time # NoTime THEN last_poll_time ELSE @,
                 !.last_error = IF last_error # None THEN last_error ELSE @]
    IN SaveStats(s1, io[3])

\* _update_stats: the record the store holds afterwards, given the outcomes
\* io of get_stats, get_active_dialogs_count and save_stats.
UpdateStats(last_poll_time, last_error, increment_total, increment_completed, increment_failed, io) ==
    LET s0 == GetStats(io[1])
        s1 == [s0 EXCEPT
                 !.active_dialogs = GetActiveDialogsCount(io[2]),
                 !.total_messages = IF increment_total THEN @ + 1 ELSE @,
                 !.completed_messages = IF increment_completed THEN @ + 1 ELSE @,
                 !.failed_messages = IF increment_failed THEN @ + 1 ELSE @,
                 !.last_poll_time = IF last_poll_time # NoTime THEN last_poll_time ELSE @,
                 !.last_error = IF last_error # None THEN last_error ELSE @]
    IN SaveStats(s1, io[3])

\* The 24-hour TTL of a Dialog state key runs out: the store drops the key.
Expire(c) ==
    /\ dialogs[c] # Absent
    /\ faults < MaxStoreFaults
    /\ faults' = faults + 1
    /\ dialogs' = [dialogs EXCEPT ![c] = Absent]
    /\ ttl' = [ttl EXCEPT ![c] = 0]
    /\ turns' = [turns EXCEPT ![c].lost = TRUE]
    /\ UNCHANGED <<workerVars, access_token, stats, platformVars, cycle, trace,
                   replies, sideVars, lifeVars, failures>>

\* The store's clock advances by one tick (half the Dialog state TTL): every
\* Dialog state key loses a tick and is dropped when none is left; the
\* avito:message:<id> keys (TTL one hour) are gone.
Tick ==
    /\ (\E c \in Chats : ttl[c] > 0) \/ queues.keys # {}
    /\ ttl' = [c \in Chats |-> IF ttl[c] > 0 THEN ttl[c] - 1 ELSE 0]
    /\ dialogs' = [c \in Chats |-> IF ttl[c] > 1 THEN dialogs[c] ELSE Absent]
    /\ queues' = [queues EXCEPT !.keys = {}]
    /\ probe' = [op |-> "tick", expired |-> { c \in Chats : ttl[c] = 1 }]
    /\ UNCHANGED <<workerVars, access_token, stats, faults, platformVars, cycle,
                   historyVars, call, lifeVars, failures>>

\* lrem(key, 1, m): the list without the first occurrence of m.
Lrem(list, m) ==
    IF \E i \in 1..Len(list) : list[i] = m
    THEN LET k == CHOOSE i \in 1..Len(list) :
                    list[i] = m /\ \A j \in 1..(i - 1) : list[j] # m
         IN SubSeq(list, 1, k - 1) \o SubSeq(list, k + 1, Len(list))
    ELSE list

\* enqueue_message: setex of the message key, then rpush of the id; an
\* exception of either call ends the method.
EnqueueMessage(m) ==
    /\ Len(queues.queue) + Len(queues.processing) < MaxQueued
    /\ \E io \in StoreOutcomes(2) :
         /\ queues' = [queues EXCEPT
                         !.keys = IF io[1] THEN @ \cup {m} ELSE @,
                         !.queue = IF io[1] /\ io[2] THEN Append(@, m) ELSE @]
         /\ faults' = faults + Faulty(io)
    /\ probe' = [op |-> "enqueue_message"]
    /\ UNCHANGED <<workerVars, access_token, dialogs, stats, platformVars, cycle,
                   historyVars, call, lifeVars, ttl, failures>>

\* dequeue_message: lmove from the left of the queue to the right of the
\* processing list; an id whose message key is gone is removed again.
DequeueMessage ==
    /\ queues.queue # <<>>
    /\ LET m == Head(queues.queue)
           moved == Append(queues.processing, m)
       IN queues' = [queues EXCEPT
                       !.queue = Tail(@),
                       !.processing = IF m \in queues.keys THEN moved
                                      ELSE Lrem(moved, m)]
    /\ probe' = [op |-> "dequeue_message"]
    /\ UNCHANGED <<workerVars, access_token, storeVars, platformVars, cycle,
                   historyVars, call, lifeVars, ttl, failures>>

\* complete_message and fail_message: lrem of the id from the processing
\* list; the message key is rewritten if it is still there.
CompleteMessage(m) ==
    /\ \E i \in 1..Len(queues.processing) : queues.processing[i] = m
    /\ queues' = [queues EXCEPT !.processing = Lrem(@, m)]
    /\ probe' = [op |-> "complete_message"]
    /\ UNCHANGED <<workerVars, access_token, storeVars, platformVars, cycle,
                   historyVars, call, lifeVars, ttl, failures>>

\* Lines 195-205 of _process_message_direct on their own: the Dialog state
\* of conversation c is read or created, updated for message m and saved.
TouchDialog(c, m) ==
    /\ \E io \in StoreOutcomes(2) :
         LET got == GetDialogState(c, io[1])
             dialog_state == IF got = Absent THEN DialogState(c, c) ELSE got
             new == [dialog_state EXCEPT !.last_message_id = m,
                                         !.last_activity = cycle,
                                         !.message_count = @ + 1]
         IN /\ new.message_count <= MaxMsgs
            /\ dialogs' = SaveDialogState(new, io[2])
            /\ ttl' = Setex(c, io[2])
            /\ faults' = faults + Faulty(io)
            /\ probe' = [op |-> "save_dialog_state", chat_id |-> c, io |-> io]
    /\ UNCHANGED <<workerVars, access_token, stats, platformVars, cycle,
                   historyVars, call, queues, lifeVars, failures>>

\* _update_stats on its own, as a dispatch calls it (lines 222-225 and
\* 233-237); probe keeps the conversations whose key was alive at the call
\* and the operation the call came after.
StoreStats ==
    /\ GetStats(TRUE).total_messages < MaxMsgs
    /\ \E io \in StoreOutcomes(3), failed \in BOOLEAN :
         /\ stats' = UpdateStats(NoTime, IF failed THEN "agent" ELSE None,
                                 TRUE, ~failed, failed, io)
         /\ faults' = faults + Faulty(io)
         /\ probe' = [op |-> "update_stats", io |-> io, after |-> IF probe.op = "tick" THEN probe ELSE [op |-> probe.op],
                      live |-> { c \in Chats : dialogs[c] # Absent }]
    /\ UNCHANGED <<workerVars, access_token, dialogs, platformVars, cycle,
                   historyVars, call, queues, lifeVars, ttl, failures>>

\* ------------------------------------------------------ monitoring surface

Endpoints == {"health", "stats", "queue", "dialogs", "dashboard"}

\* What an endpoint answers; ok says whether the store answers its reads.
MonitorResponse(endpoint, ok) ==
    CASE endpoint = "health" ->
           IF ok THEN [status |-> 200, body |-> "healthy"]
           ELSE [status |-> 503, body |-> "error"]
      [] endpoint = "stats" -> [status |-> 200, body |-> GetStats(ok)]
      [] endpoint = "queue" ->
           IF ok
           THEN [status |-> 200,
                 body |-> [queue_length |-> Len(queues.queue),
                           processing_count |-> Len(queues.processing),
                           total |-> Len(queues.queue) + Len(queues.processing)]]
           ELSE [status |-> 500, body |-> "error"]
      [] endpoint = "dialogs" ->
           [status |-> 200, body |-> [active_dialogs |-> GetActiveDialogsCount(ok)]]
      [] OTHER -> [status |-> 200, body |-> "html"]

\* A variant of the stats endpoint that stores the defaults it answers with
\* when there is no statistics record.
Monitor_Initialises(endpoint) ==
    /\ \E ok \in BOOLEAN :
         probe' = [op |-> endpoint, response |-> MonitorResponse(endpoint, ok)]
    /\ stats' = IF endpoint = "stats" /\ stats = Absent THEN WorkerStats ELSE stats
    /\ UNCHANGED <<workerVars, access_token, dialogs, faults, platformVars, cycle,
                   historyVars, call, queues, lifeVars, ttl, failures>>

\* A request to an endpoint of the monitoring API.
Monitor(endpoint) ==
    /\ \E ok \in BOOLEAN :
         probe' = [op |-> endpoint, response |-> MonitorResponse(endpoint, ok)]
    /\ UNCHANGED <<workerVars, access_token, storeVars, platformVars, cycle,
                   historyVars, call, queues, lifeVars, ttl, failures>>

\* ------------------------------------------------------ history

\* Per cycle: how the listing went and whether a token request has failed
\* in it. Per conversation and cycle: fetch ("no", "failed", "done"), the ids of the
\* qualifying messages of the fetched batch and of the newest among them,
\* what mark_chat_as_read returned ("no": not called), how the store calls
\* of the Dialog state update went ("no": not made) and the calls made for
\* the conversation, in order.
NoTrace ==
    [fetch |-> "no", qual |-> {}, best |-> {}, ack |-> "no", store |-> "no",
     events |-> <<>>]
NewCycle(poll) ==
    [poll |-> poll, auth |-> FALSE, chat |-> [c \in Chats |-> NoTrace]]
Event(op, msg) == [op |-> op, msg |-> msg]
Logged(c, op, msg) ==
    [trace EXCEPT !.chat[c].events = Append(@, Event(op, msg))]

\* A qualifying message: inbound, not read, with a text.
Qualifying(m) == m.direction = "in" /\ m.is_read = FALSE /\ m.text # NoText
\* The ids of the qualifying messages of a batch, and of those among them
\* that carry the maximum creation timestamp.
QualIds(messages) ==
    { messages[i].id : i \in { j \in 1..Len(messages) : Qualifying(messages[j]) } }
BestIds(messages) ==
    { messages[i].id : i \in
        { j \in 1..Len(messages) :
            /\ Qualifying(messages[j])
            /\ \A k \in 1..Len(messages) :
                 Qualifying(messages[k]) => messages[k].created <= messages[j].created } }

\* ------------------------------------------------------ worker

\* A variant that walks the listing from its end.
chat_id_Backwards == unread_chats[Len(unread_chats) + 1 - idx]

\* The conversation the for-loop is at.
chat_id == unread_chats[idx]

\* The positions of the coroutine inside _poll_avito_loop.
LoopPcs == {"loop", "chat", "mark", "dialog", "answer", "send", "sleep"}

\* main(), lines 289-292: the store client is created and connected.
Connect ==
    /\ pc = "main"
    /\ redis' = "open"
    /\ pc' = "config"
    /\ UNCHANGED <<running, access_token, unread_chats, idx, last_message, answer,
                   storeVars, platformVars, cycle, historyVars, sideVars, agent, exits,
                   ttl, failures>>

\* main(), lines 298-300: AVITO_USER_ID is not set; sys.exit(1) is called
\* outside the try statement, so its finally clause does not run.
MissingUserId ==
    /\ pc = "config"
    /\ pc' = "done"
    /\ UNCHANGED <<running, access_token, unread_chats, idx, last_message, answer,
                   storeVars, platformVars, cycle, historyVars, sideVars, lifeVars,
                   ttl, failures>>

\* main(), lines 302-326: the clients and the worker are created, the signal
\* handlers are installed and worker.start() is awaited.
Configure ==
    /\ pc = "config"
    /\ pc' = "start"
    /\ UNCHANGED <<running, access_token, unread_chats, idx, last_message, answer,
                   storeVars, platformVars, cycle, historyVars, sideVars, lifeVars,
                   ttl, failures>>

\* start(): _running = True, the agent is entered, the loop begins.
Start ==
    /\ pc = "start"
    /\ running' = TRUE
    /\ agent' = "open"
    /\ pc' = "loop"
    /\ UNCHANGED <<access_token, unread_chats, idx, last_message, answer,
                   storeVars, platformVars, cycle, historyVars, sideVars, redis, exits,
                   ttl, failures>>

\* start(): AgentClient.__aenter__ raised, either in McpClient.__aenter__
\* (nothing is held) or in build_agent (the MCP client stays entered); main
\* logs the error, calls sys.exit(1) and its finally clause runs.
StartFailed ==
    /\ pc = "start"
    /\ running' = TRUE
    /\ agent' \in {"none", "open"}
    /\ pc' = "finally"
    /\ UNCHANGED <<access_token, unread_chats, idx, last_message, answer,
                   storeVars, platformVars, cycle, historyVars, sideVars, redis, exits,
                   ttl, failures>>

\* signal_handler and the task it creates, stop(): _running = False and
\* the agent is exited; the task runs while the loop is suspended at an
\* await. Every signal creates such a task; _agent_client and its
\* _mcp_client stay set, so each of them calls the MCP client's __aexit__.
Stop ==
    /\ pc \in LoopPcs /\ exits < MaxStops
    /\ running' = FALSE
    /\ agent' = "closed"
    /\ exits' = exits + 1
    /\ UNCHANGED <<pc, access_token, unread_chats, idx, last_message, answer,
                   storeVars, platformVars, cycle, historyVars, sideVars, redis,
                   ttl, failures>>

\* while self._running: the flag is down, the loop and start() return and
\* main reaches its finally clause.
LoopExit ==
    /\ pc = "loop" /\ ~running
    /\ pc' = "finally"
    /\ UNCHANGED <<running, access_token, unread_chats, idx, last_message, answer,
                   storeVars, platformVars, cycle, historyVars, sideVars, lifeVars,
                   ttl, failures>>

\* The task is cancelled while the loop is suspended: CancelledError breaks
\* the loop (lines 160-162 and 170-172) or leaves start() (line 329); main
\* reaches its finally clause. The locals of the loop are dead.
Cancel ==
    /\ pc \in LoopPcs
    /\ pc' = "finally"
    /\ unread_chats' = <<>>
    /\ idx' = 1
    /\ last_message' = Absent
    /\ answer' = Absent
    /\ trace' = NewCycle("none")
    /\ UNCHANGED <<running, access_token, storeVars, platformVars, cycle, replies,
                   turns, sideVars, lifeVars, ttl, failures>>

\* main(), lines 334-342: the finally clause disconnects the store client.
Disconnect ==
    /\ pc = "finally"
    /\ redis' = "closed"
    /\ pc' = "done"
    /\ UNCHANGED <<running, access_token, unread_chats, idx, last_message, answer,
                   storeVars, platformVars, cycle, historyVars, sideVars, agent, exits,
                   ttl, failures>>

\* A variant that does not hand the error text to _update_stats.
CycleError_NoRecord(e) ==
    /\ \E io \in StoreOutcomes(3) :
         /\ stats' = UpdateStats(NoTime, None, FALSE, FALSE, FALSE, io)
         /\ faults' = faults + Faulty(io)
    /\ pc' = "sleep"

\* The except clause of the loop (lines 163-165), then on to the sleep.
CycleError(e) ==
    /\ \E io \in StoreOutcomes(3) :
         /\ stats' = UpdateStats(NoTime, e, FALSE, FALSE, FALSE, io)
         /\ faults' = faults + Faulty(io)
    /\ pc' = "sleep"

\* get_unread_chats() returned the listing: the for-loop starts.
PollChats ==
    /\ pc = "loop" /\ running /\ cycle < MaxCycles
    /\ \E r \in RequestWithRetry(access_token), listing \in Listings :
         /\ r.ok
         /\ listed + Len(listing) <= MaxListed
         /\ access_token' = r.token
         /\ unread_chats' = listing
         /\ listed' = listed + Len(listing)
    /\ idx' = 1
    /\ pc' = "chat"
    /\ cycle' = cycle + 1
    /\ trace' = NewCycle("ok")
    /\ UNCHANGED <<running, last_message, answer, storeVars, inbox,
                   replies, turns, sideVars, lifeVars, ttl, failures>>

\* get_unread_chats() raised: the cycle ends in the except clause.
PollChatsFailed ==
    /\ pc = "loop" /\ running /\ cycle < MaxCycles
    /\ \E r \in RequestWithRetry(access_token) :
         /\ ~r.ok
         /\ access_token' = r.token
         /\ trace' = [NewCycle("failed") EXCEPT !.auth = TokenFailed(r)]
    /\ cycle' = cycle + 1
    /\ unread_chats' = <<>>
    /\ idx' = 1
    /\ CycleError("chats")
    /\ UNCHANGED <<running, last_message, answer, dialogs, platformVars,
                   replies, turns, sideVars, lifeVars, ttl, failures>>

\* if not chat_id: continue
SkipChat ==
    /\ pc = "chat" /\ idx <= Len(unread_chats) /\ chat_id = NoId
    /\ idx' = idx + 1
    /\ UNCHANGED <<pc, running, access_token, unread_chats, last_message, answer,
                   storeVars, platformVars, cycle, historyVars, sideVars, lifeVars, ttl, failures>>

\* get_chat_messages() raised: the exception is not caught in the for-loop
\* and reaches the except clause of the cycle.
FetchFailed ==
    /\ pc = "chat" /\ idx <= Len(unread_chats) /\ chat_id # NoId
    /\ \E r \in RequestWithRetry(access_token) :
         /\ ~r.ok
         /\ access_token' = r.token
         /\ trace' = [trace EXCEPT !.chat[chat_id].fetch = "failed",
                                   !.auth = @ \/ TokenFailed(r)]
    /\ CycleError("messages")
    /\ UNCHANGED <<running, unread_chats, idx, last_message, answer, dialogs,
                   platformVars, cycle, replies, turns, sideVars, lifeVars, ttl, failures>>

\* A variant that dispatches the selected message without acknowledging.
AfterSelect_Dispatch == "dialog"

\* Line 132: the statement after the selection is mark_chat_as_read.
AfterSelect == "mark"

\* get_chat_messages() returned: filter, sort, select (lines 95-129); with
\* nothing selected the for-loop moves on.
FetchMessages ==
    /\ pc = "chat" /\ idx <= Len(unread_chats) /\ chat_id # NoId
    /\ \E r \in RequestWithRetry(access_token),
          messages \in Orders(LastN(inbox[chat_id], FetchLimit)) :
         LET selected == SelectLast(messages)
         IN /\ r.ok
            /\ access_token' = r.token
            /\ trace' = [trace EXCEPT !.chat[chat_id].fetch = "done",
                                      !.chat[chat_id].qual = QualIds(messages),
                                      !.chat[chat_id].best = BestIds(messages)]
            /\ IF selected = Absent
               THEN /\ idx' = idx + 1
                    /\ UNCHANGED <<pc, last_message>>
               ELSE /\ last_message' = selected
                    /\ pc' = AfterSelect
                    /\ UNCHANGED idx
    /\ UNCHANGED <<running, unread_chats, answer, storeVars, platformVars, cycle,
                   replies, turns, sideVars, lifeVars, ttl, failures>>

\* A variant that counts a message at the end of every cycle.
EndOfChats_Counts ==
    /\ pc = "chat" /\ idx > Len(unread_chats)
    /\ \E io \in StoreOutcomes(3) :
         /\ stats' = UpdateStats(cycle, None, TRUE, TRUE, FALSE, io)
         /\ faults' = faults + Faulty(io)
    /\ pc' = "sleep"
    /\ UNCHANGED <<running, access_token, unread_chats, idx, last_message, answer,
                   dialogs, platformVars, cycle, historyVars, sideVars, lifeVars, ttl, failures>>

\* The for-loop is over: _update_stats(last_poll_time=utcnow()).
EndOfChats ==
    /\ pc = "chat" /\ idx > Len(unread_chats)
    /\ \E io \in StoreOutcomes(3) :
         /\ stats' = UpdateStats(cycle, None, FALSE, FALSE, FALSE, io)
         /\ faults' = faults + Faulty(io)
    /\ pc' = "sleep"
    /\ UNCHANGED <<running, access_token, unread_chats, idx, last_message, answer,
                   dialogs, platformVars, cycle, historyVars, sideVars, lifeVars, ttl, failures>>

\* asyncio.sleep(poll_interval), then back to the while test. The locals of
\* the finished iteration are dead and the history of the cycle is closed.
Sleep ==
    /\ pc = "sleep"
    /\ pc' = "loop"
    /\ unread_chats' = <<>>
    /\ idx' = 1
    /\ last_message' = Absent
    /\ answer' = Absent
    /\ trace' = NewCycle("none")
    /\ UNCHANGED <<running, access_token, storeVars, platformVars, cycle, replies,
                   turns, sideVars, lifeVars, ttl, failures>>

\* A variant in which a failed acknowledgement raises to the loop.
MarkRead_Escalates ==
    /\ pc = "mark"
    /\ \E r \in RequestWithRetry(access_token), body_ok \in BOOLEAN :
         LET res == ApiResult("mark_chat_as_read", r, body_ok)
         IN /\ access_token' = r.token
            /\ inbox' = IF res = "true"
                        THEN [inbox EXCEPT ![chat_id] = MarkedRead(@)]
                        ELSE inbox
            /\ trace' = [Logged(chat_id, "mark", last_message.id)
                           EXCEPT !.chat[chat_id].ack = res,
                                  !.auth = @ \/ TokenFailed(r)]
            /\ IF res = "true"
               THEN pc' = "dialog" /\ UNCHANGED <<stats, faults>>
               ELSE CycleError("mark")
    /\ UNCHANGED <<running, unread_chats, idx, last_message, answer, dialogs,
                   listed, cycle, replies, turns, sideVars, lifeVars, ttl, failures>>

\* mark_chat_as_read(chat_id): its result is not looked at; on success the
\* platform marks the conversation read.
MarkRead ==
    /\ pc = "mark"
    /\ \E r \in RequestWithRetry(access_token), body_ok \in BOOLEAN :
         LET res == ApiResult("mark_chat_as_read", r, body_ok)
         IN /\ access_token' = r.token
            /\ inbox' = IF res = "true"
                        THEN [inbox EXCEPT ![chat_id] = MarkedRead(@)]
                        ELSE inbox
            /\ trace' = [Logged(chat_id, "mark", last_message.id)
                           EXCEPT !.chat[chat_id].ack = res,
                                  !.auth = @ \/ TokenFailed(r)]
    /\ pc' = "dialog"
    /\ UNCHANGED <<running, unread_chats, idx, last_message, answer, storeVars,
                   listed, cycle, replies, turns, sideVars, lifeVars, ttl, failures>>

\* A variant in which a failed store call of the Dialog state update raises
\* into the except clause of _process_message_direct.
DialogUpdate_Raises ==
    /\ pc = "dialog"
    /\ \E io \in StoreOutcomes(2) :
         LET got == GetDialogState(chat_id, io[1])
             dialog_state == IF got = Absent
                             THEN DialogState(chat_id, last_message.author_id)
                             ELSE got
             new == [dialog_state EXCEPT !.last_message_id = last_message.id,
                                         !.last_activity = cycle,
                                         !.message_count = @ + 1]
         IN /\ dialogs' = SaveDialogState(new, io[2])
            /\ ttl' = Setex(chat_id, io[2])
            /\ turns' = [turns EXCEPT ![chat_id] =
                           [n |-> @.n + 1, last |-> last_message.id,
                            lost |-> @.lost \/ ~io[1] \/ ~io[2]]]
            /\ faults' = faults + Faulty(io)
            /\ trace' = [Logged(chat_id, "save", last_message.id)
                           EXCEPT !.chat[chat_id].store =
                                    IF Faulty(io) = 1 THEN "failed" ELSE "ok"]
            /\ IF Faulty(io) = 1
               THEN /\ pc' = "chat" /\ idx' = idx + 1
                    /\ last_message' = Absent
               ELSE /\ pc' = "answer"
                    /\ UNCHANGED <<idx, last_message>>
    /\ UNCHANGED <<running, access_token, unread_chats, answer,
                   stats, platformVars, cycle, replies, sideVars, lifeVars, failures>>

\* A variant that asks the agent before the Dialog state is updated.
DialogUpdate_Skipped ==
    /\ pc = "dialog"
    /\ pc' = "answer"
    /\ UNCHANGED <<running, access_token, unread_chats, idx, last_message, answer,
                   storeVars, platformVars, cycle, historyVars, sideVars, lifeVars,
                   ttl, failures>>

\* _process_message_direct, lines 195-205: read or create the Dialog state,
\* update it and save it.
DialogUpdate ==
    /\ pc = "dialog"
    /\ \E io \in StoreOutcomes(2) :
         LET read_ok == io[1]
             write_ok == io[2]
             got == GetDialogState(chat_id, read_ok)
             dialog_state == IF got = Absent
                             THEN DialogState(chat_id, last_message.author_id)
                             ELSE got
             new == [dialog_state EXCEPT !.last_message_id = last_message.id,
                                         !.last_activity = cycle,
                                         !.message_count = @ + 1]
         IN /\ dialogs' = SaveDialogState(new, write_ok)
            /\ ttl' = Setex(chat_id, write_ok)
            /\ turns' = [turns EXCEPT ![chat_id] =
                           [n |-> @.n + 1, last |-> last_message.id,
                            lost |-> @.lost \/ ~read_ok \/ ~write_ok]]
            /\ faults' = faults + Faulty(io)
            /\ trace' = [Logged(chat_id, "save", last_message.id)
                           EXCEPT !.chat[chat_id].store =
                                    IF Faulty(io) = 1 THEN "failed" ELSE "ok"]
    /\ pc' = "answer"
    /\ UNCHANGED <<running, access_token, unread_chats, idx, last_message, answer,
                   stats, platformVars, cycle, replies, sideVars, lifeVars, failures>>

\* The dispatch is over: the for-loop goes on with the next conversation.
NextChat ==
    /\ pc' = "chat"
    /\ idx' = idx + 1
    /\ last_message' = Absent
    /\ answer' = Absent

\* A variant that counts the failed dispatch as completed.
DispatchError_Completed(e) ==
    /\ \E io \in StoreOutcomes(3) :
         /\ stats' = UpdateStats(NoTime, e, TRUE, TRUE, FALSE, io)
         /\ faults' = faults + Faulty(io)
    /\ failures' = [failures EXCEPT ![last_message.id] = @ + 1]
    /\ NextChat

\* The except clause of _process_message_direct (lines 227-237).
DispatchError(e) ==
    /\ \E io \in StoreOutcomes(3) :
         /\ stats' = UpdateStats(NoTime, e, TRUE, FALSE, TRUE, io)
         /\ faults' = faults + Faulty(io)
    /\ failures' = [failures EXCEPT ![last_message.id] = @ + 1]
    /\ NextChat

\* get_answer(text) returned the agent's answer to the text.
GetAnswer ==
    /\ pc = "answer"
    /\ answer' = [re |-> last_message.text]
    /\ trace' = Logged(chat_id, "answer", last_message.text)
    /\ pc' = "send"
    /\ UNCHANGED <<running, access_token, unread_chats, idx, last_message,
                   storeVars, platformVars, cycle, replies, turns, sideVars, lifeVars, ttl, failures>>

\* get_answer(text) raised RuntimeError.
GetAnswerFailed ==
    /\ pc = "answer"
    /\ trace' = Logged(chat_id, "answer_failed", last_message.text)
    /\ DispatchError("agent")
    /\ UNCHANGED <<running, access_token, unread_chats, dialogs, platformVars, cycle,
                   replies, turns, sideVars, lifeVars, ttl>>

\* send_message(chat_id, answer) delivered the reply; the statistics count
\* a completed message.
SendMessage ==
    /\ pc = "send"
    /\ \E r \in RequestWithRetry(access_token) :
         /\ r.ok
         /\ access_token' = r.token
    /\ trace' = Logged(chat_id, "send", answer.re)
    /\ replies' = [replies EXCEPT ![last_message.id] = @ + 1]
    /\ \E io \in StoreOutcomes(3) :
         /\ stats' = UpdateStats(NoTime, None, TRUE, TRUE, FALSE, io)
         /\ faults' = faults + Faulty(io)
    /\ NextChat
    /\ UNCHANGED <<running, unread_chats, dialogs, platformVars, cycle, turns, sideVars, lifeVars, ttl, failures>>

\* send_message(chat_id, answer) raised RuntimeError: nothing was delivered.
SendFailed ==
    /\ pc = "send"
    /\ \E r \in RequestWithRetry(access_token) :
         /\ ~r.ok
         /\ access_token' = r.token
         /\ trace' = [Logged(chat_id, "send_failed", answer.re)
                        EXCEPT !.auth = @ \/ TokenFailed(r)]
    /\ DispatchError("send")
    /\ UNCHANGED <<running, unread_chats, dialogs, platformVars, cycle, replies,
                   turns, sideVars, lifeVars, ttl>>

\* ------------------------------------------------------ specifications

\* The process before main() runs, with the store having had f incidents.
Boot(f) ==
    /\ pc = "main"
    /\ running = FALSE
    /\ access_token = NoToken
    /\ unread_chats = <<>>
    /\ idx = 1
    /\ last_message = Absent
    /\ answer = Absent
    /\ dialogs = [c \in Chats |-> Absent]
    /\ stats = Absent
    /\ faults = f
    /\ inbox = [c \in Chats |-> <<>>]
    /\ listed = 0
    /\ cycle = 0
    /\ trace = NewCycle("none")
    /\ replies = [m \in MsgIds |-> 0]
    /\ turns = [c \in Chats |-> [n |-> 0, last |-> NoMsg, lost |-> FALSE]]
    /\ call = [n |-> 0, api |-> None, log |-> <<>>, before |-> NoToken,
               result |-> None]
    /\ agent = "none"
    /\ redis = "none"
    /\ ttl = [c \in Chats |-> 0]
    /\ queues = [queue |-> <<>>, processing |-> <<>>, keys |-> {}]
    /\ failures = [m \in MsgIds |-> 0]
    /\ probe = [op |-> None]
    /\ exits = 0

Init == Boot(0)

\* main() up to the loop, and its exit.
Main ==
    \/ Connect
    \/ MissingUserId
    \/ Configure
    \/ Start
    \/ StartFailed
    \/ Disconnect

\* The steps of the loop, and the users of the platform.
Work ==
    \/ PollChats
    \/ PollChatsFailed
    \/ SkipChat
    \/ FetchFailed
    \/ FetchMessages
    \/ EndOfChats
    \/ Sleep
    \/ MarkRead
    \/ DialogUpdate
    \/ GetAnswer
    \/ GetAnswerFailed
    \/ SendMessage
    \/ SendFailed
    \/ \E c \in Chats : UserSends(c)

Next ==
    \/ Main
    \/ Work
    \/ \E c \in Chats : Expire(c)

\* The worker with its environment, store incidents included, while no
\* stop signal arrives.
Spec == Init /\ [][Next]_vars

\* The store has had all its incidents.
InitLife == Boot(MaxStoreFaults)

NextLife ==
    \/ Main
    \/ Work
    \/ Stop
    \/ LoopExit
    \/ Cancel

\* The worker from start to exit, with stop signals and cancellation, over
\* a store that works.
SpecLife == InitLife /\ [][NextLife]_vars

\* The agent client on its own: any sequence of get_answer calls.
SpecAgent == Init /\ [][AgentCall]_vars

NextStore ==
    \/ \E c \in Chats, m \in MsgIds : TouchDialog(c, m)
    \/ Tick
    \/ StoreStats

\* The Dialog state and statistics keys with their writer and the store's
\* clock: any sequence of Dialog state saves, statistics updates and ticks.
SpecStore == Init /\ [][NextStore]_vars

NextMonitor ==
    \/ NextStore
    \/ \E m \in MsgIds : EnqueueMessage(m)
    \/ DequeueMessage
    \/ \E m \in MsgIds : CompleteMessage(m)
    \/ \E endpoint \in Endpoints : Monitor(endpoint)

\* The monitoring API beside the writers of a store that works: any
\* sequence of store operations, ticks and monitoring requests.
SpecMonitor == InitLife /\ [][NextMonitor]_vars

NextApi == \E api \in Apis : ClientCall(api)

\* The Source-API client on its own: any sequence of client calls.
SpecApi == Init /\ [][NextApi]_vars

\* ------------------------------------------------------ properties

\* The calls op made for conversation c in this cycle.
Calls(c, op) == SelectSeq(trace.chat[c].events, LAMBDA e : e.op = op)
Ops(c) == { trace.chat[c].events[i].op : i \in DOMAIN trace.chat[c].events }
\* A field of the stored statistics, with the defaults of an absent record.
Stat(st, f) == IF st = Absent THEN WorkerStats[f] ELSE st[f]

\* C1 as stated: when a cycle is over, every conversation whose fetched batch
\* held a qualifying message got exactly one reply, generated from a newest
\* qualifying message.
C1_ExactlyOneReply ==
    pc = "sleep" =>
      \A c \in Chats :
        trace.chat[c].qual # {} =>
          /\ Len(Calls(c, "send")) = 1
          /\ Calls(c, "send")[1].msg \in trace.chat[c].best

\* C1, amended: every call made for a conversation in a cycle concerns a
\* newest qualifying message of its fetched batch, at most one reply is
\* sent, and when the cycle is over a conversation with a qualifying
\* message had exactly one dispatch, which sent exactly one reply if neither
\* get_answer nor send_message raised and none otherwise.
C1_OneDispatchOfNewest ==
    \A c \in Chats :
      /\ \A i \in DOMAIN trace.chat[c].events :
           trace.chat[c].events[i].msg \in trace.chat[c].best
      /\ Len(Calls(c, "send")) <= 1
      /\ (pc = "sleep" /\ trace.chat[c].qual # {}) =>
           /\ Len(Calls(c, "save")) = 1
           /\ Len(Calls(c, "send")) + Len(Calls(c, "answer_failed"))
                + Len(Calls(c, "send_failed")) = 1

\* C1, witness: a cycle is over in which a conversation held two qualifying
\* messages of different age and one reply was sent.
C1_Witness ==
    /\ pc = "sleep"
    /\ \E c \in Chats :
         /\ Cardinality(trace.chat[c].qual) >= 2
         /\ trace.chat[c].best # trace.chat[c].qual
         /\ Len(Calls(c, "send")) = 1

\* C2: no inbound message gets more than one delivered reply.
C2_AtMostOneReplyPerMessage == \A m \in MsgIds : replies[m] <= 1

\* C3 as stated: after K dispatches for a conversation its Dialog state
\* holds message_count = K and the id of the last dispatched message.
C3_CountEqualsTurns ==
    \A c \in Chats :
      turns[c].n > 0 =>
        /\ dialogs[c] # Absent
        /\ dialogs[c].message_count = turns[c].n
        /\ dialogs[c].last_message_id = turns[c].last

\* C3, amended: the same, for a conversation whose Dialog state key has not
\* expired and none of whose Dialog state reads and writes has failed.
C3_CountEqualsTurnsUnlessLost ==
    \A c \in Chats :
      (turns[c].n > 0 /\ ~turns[c].lost) =>
        /\ dialogs[c] # Absent
        /\ dialogs[c].message_count = turns[c].n
        /\ dialogs[c].last_message_id = turns[c].last

\* C3, witness: a conversation with two turns, in two cycles, and a record
\* that counts both.
C3_Witness ==
    \E c \in Chats :
      /\ turns[c].n = 2 /\ ~turns[c].lost
      /\ dialogs[c] # Absent /\ dialogs[c].message_count = 2

\* get_answer raised in this step: the worker leaves the "answer" position
\* without going on to send_message.
AgentRaised == pc = "answer" /\ pc' # "answer" /\ pc' # "send"

\* C4 as stated: when get_answer raises, the failed counter of the stored
\* statistics grows by exactly 1, the completed counter keeps its value and
\* the for-loop goes on with the next conversation.
C4_FailedPlusOne ==
    [][AgentRaised =>
         /\ Stat(stats', "failed_messages") = Stat(stats, "failed_messages") + 1
         /\ Stat(stats', "completed_messages") = Stat(stats, "completed_messages")
         /\ pc' = "chat" /\ idx' = idx + 1 /\ cycle' = cycle]_vars

\* C4, amended: when get_answer raises, the for-loop goes on with the next
\* conversation of the same cycle; if no store call of the statistics update
\* fails, the failed counter grows by exactly 1 and the completed counter
\* keeps its value; if one fails, the record is either left as it was (the
\* save failed) or written with failed one more than the value read and
\* completed equal to the value read, the value read being the stored one or,
\* after a failed read, 0.
C4_FailedPlusOneIfStored ==
    [][AgentRaised =>
         /\ pc' = "chat" /\ idx' = idx + 1 /\ cycle' = cycle
         /\ faults' = faults =>
              /\ Stat(stats', "failed_messages") = Stat(stats, "failed_messages") + 1
              /\ Stat(stats', "completed_messages") = Stat(stats, "completed_messages")
         /\ faults' # faults =>
              \/ stats' = stats
              \/ /\ Stat(stats', "failed_messages") = Stat(stats, "failed_messages") + 1
                 /\ Stat(stats', "completed_messages") = Stat(stats, "completed_messages")
              \/ /\ Stat(stats', "failed_messages") = 1
                 /\ Stat(stats', "completed_messages") = 0]_vars

\* C4, witness: get_answer raised for the first of two listed conversations,
\* one failed and no completed message is counted, and the for-loop is at
\* the second conversation.
C4_Witness ==
    /\ pc = "chat" /\ idx = 2 /\ Len(unread_chats) = 2
    /\ unread_chats[1] # NoId
    /\ "answer_failed" \in Ops(unread_chats[1])
    /\ Stat(stats, "failed_messages") = 1
    /\ Stat(stats, "completed_messages") = 0

\* The exchanges of the last client call that are requests to its endpoint,
\* and those that are token requests.
RequestsAt == { i \in DOMAIN call.log : call.log[i].kind = "request" }
TokensAt == { i \in DOMAIN call.log : call.log[i].kind = "token" }
FirstRequest == CHOOSE i \in RequestsAt : \A j \in RequestsAt : i <= j

\* C5 as stated: in a client call whose first request is answered 401, the
\* client obtains a new token and makes the request exactly once more, so
\* that the call makes exactly two requests; if the second is answered 401
\* too, the call fails.
C5_RetryExactlyOnce ==
    (RequestsAt # {} /\ call.log[FirstRequest].status = 401) =>
      /\ Cardinality(RequestsAt) = 2
      /\ Cardinality(TokensAt \cap { i \in DOMAIN call.log : i > FirstRequest }) = 1
      /\ call.log[Len(call.log)].kind = "request"
      /\ call.log[Len(call.log)].status = 401 => call.result \in {"raised", "false"}

\* C5, amended: in a client call whose first request is answered 401, the
\* next exchange is one token request; if it yields a token, the request is
\* made exactly once more, with the new token, and nothing follows it, and
\* if that second request is answered 401 too, the call fails; if the token
\* request fails, the call fails without repeating the request. No call
\* makes a third request.
C5_RetryOnceIfTokenObtained ==
    /\ Cardinality(RequestsAt) <= 2
    /\ (RequestsAt # {} /\ call.log[FirstRequest].status = 401) =>
         LET f == FirstRequest
         IN /\ Len(call.log) > f
            /\ call.log[f + 1].kind = "token"
            /\ call.log[f + 1].status = 200 =>
                 /\ Len(call.log) = f + 2
                 /\ call.log[f + 2].kind = "request"
                 /\ call.log[f + 2].bearer # call.log[f].bearer
                 /\ call.log[f + 2].bearer = access_token
                 /\ call.log[f + 2].status = 401 => call.result \in {"raised", "false"}
            /\ call.log[f + 1].status # 200 =>
                 /\ Len(call.log) = f + 1
                 /\ call.result \in {"raised", "false"}

\* C5, witness: a call made two requests, both answered 401, and failed.
C5_Witness ==
    /\ Cardinality(RequestsAt) = 2
    /\ \A i \in RequestsAt : call.log[i].status = 401
    /\ call.result = "raised"

\* C6: a conversation whose fetched batch held no qualifying message has no
\* call made for it in that cycle: no acknowledgement, no Dialog state
\* write, no answer, no reply.
C6_NothingWithoutQualifying ==
    \A c \in Chats :
      (trace.chat[c].fetch = "done" /\ trace.chat[c].qual = {}) =>
        /\ trace.chat[c].events = <<>>
        /\ trace.chat[c].ack = "no"
        /\ ~(pc \in {"mark", "dialog", "answer", "send"} /\ chat_id = c)

\* C6, witness: a cycle is over in which a conversation with messages, none
\* of them qualifying, was fetched.
C6_Witness ==
    /\ pc = "sleep"
    /\ \E c \in Chats :
         /\ trace.chat[c].fetch = "done" /\ trace.chat[c].qual = {}
         /\ Len(inbox[c]) = 2
         /\ \E i \in 1..2 : inbox[c][i].direction = "in" /\ inbox[c][i].is_read

\* C7: when a cycle whose listing succeeded is over, every listed
\* conversation was handled: an error at one conversation did not keep the
\* worker from the conversations listed after it.
C7_ErrorsContained ==
    (pc = "sleep" /\ trace.poll = "ok") =>
      \A i \in 1..Len(unread_chats) :
        unread_chats[i] # NoId => trace.chat[unread_chats[i]].fetch # "no"

\* The listing call failed in this step.
ListingFailed == pc = "loop" /\ pc' = "sleep"

\* C8 as stated: when the listing fails, no conversation is handled in the
\* cycle, last_error of the stored statistics is the error of the listing,
\* and the sleep leads to the next cycle.
C8_ListingErrorRecorded ==
    [][/\ ListingFailed =>
            /\ trace'.poll = "failed"
            /\ \A c \in Chats : trace'.chat[c] = NoTrace
            /\ Stat(stats', "last_error") = "chats"
       /\ (pc = "sleep" /\ pc' # "sleep") => pc' = "loop"]_vars

\* C8, amended: the same, except that last_error is the error of the
\* listing only if save_stats succeeds; if it fails the record is left as
\* it was.
C8_ListingErrorRecordedIfSaved ==
    [][/\ ListingFailed =>
            /\ trace'.poll = "failed"
            /\ \A c \in Chats : trace'.chat[c] = NoTrace
            /\ \/ Stat(stats', "last_error") = "chats"
               \/ stats' = stats /\ faults' = faults + 1
       /\ (pc = "sleep" /\ pc' # "sleep") => pc' = "loop"]_vars

\* C8, witness: the second cycle began after a first cycle whose listing
\* failed and whose error is recorded.
C8_Witness ==
    /\ cycle = 2 /\ pc = "chat"
    /\ Stat(stats, "last_error") = "chats"
    /\ Stat(stats, "last_poll_time") = NoTime

\* C9: every get_answer and every send_message of a cycle comes after a
\* mark_chat_as_read for the same conversation and message in that cycle.
C9_AcknowledgedFirst ==
    \A c \in Chats :
      \A i \in DOMAIN trace.chat[c].events :
        trace.chat[c].events[i].op \in {"answer", "answer_failed", "send", "send_failed"} =>
          \E j \in 1..(i - 1) :
            /\ trace.chat[c].events[j].op = "mark"
            /\ trace.chat[c].events[j].msg = trace.chat[c].events[i].msg

\* C9, witness: a reply was sent in this cycle.
C9_Witness ==
    \E c \in Chats :
      /\ Len(trace.chat[c].events) = 4
      /\ trace.chat[c].events[1].op = "mark"
      /\ trace.chat[c].events[3].op = "answer"
      /\ trace.chat[c].events[4].op = "send"

\* C10: mark_chat_as_read always returns, and the worker goes on to the
\* dispatch of the selected message in the same cycle; after a failed
\* acknowledgement the dispatch of that message is the next step of the
\* worker or has been made.
C10_DispatchAfterFailedAck ==
    \A c \in Chats :
      trace.chat[c].ack = "false" =>
        \/ pc = "dialog" /\ chat_id = c /\ Calls(c, "mark")[1].msg = last_message.id
        \/ /\ Len(Calls(c, "save")) = 1
           /\ Calls(c, "save")[1].msg = Calls(c, "mark")[1].msg

\* C10, witness: the acknowledgement failed and the reply was sent.
C10_Witness ==
    \E c \in Chats :
      trace.chat[c].ack = "false" /\ Len(Calls(c, "send")) = 1

\* stop() ran in this step.
StopSignal == running /\ ~running' /\ pc \in LoopPcs

\* C11: a stop signal that arrives during the sleep between two cycles ends
\* the sleep in that very step, and once a stop signal has arrived the loop
\* handles no further conversation: at the head of the for-loop it neither
\* fetches nor dispatches, it only leaves.
C11_StopInterrupts ==
    [][/\ (StopSignal /\ pc = "sleep") => pc' # "sleep"
       /\ (~running /\ pc = "chat" /\ pc' # "finally") =>
            /\ pc' \in {"chat", "sleep"}
            /\ trace'.chat = trace.chat]_vars

\* C12: when the process has ended, neither the store connection nor the
\* agent's connection is still held, whichever way the process took.
C12_ResourcesReleased ==
    pc = "done" => (redis # "open" /\ agent # "open")

\* C20: after a stop signal no new cycle starts (from the while test the
\* loop only leaves), and whenever get_answer is about to be called for a
\* conversation of the cycle in flight, the agent client is still entered.
C20_InFlightCycleCompletes ==
    [][/\ (~running /\ pc = "loop") => pc' \in {"loop", "finally"}
       /\ pc' = "answer" => agent' = "open"]_vars

\* The text the stream of the last get_answer call yielded, joined in
\* arrival order.
Arrived == Join(probe.parts)
Returned == probe.op = "get_answer" /\ ~probe.result.raised

\* C13 as stated: get_answer returns the fragments joined in arrival order
\* and never an empty text; with zero fragments it returns the apology; when
\* the stream raises, it fails with an error that carries the cause.
C13_JoinedInOrder ==
    /\ Returned =>
         /\ probe.result.value # <<>>
         /\ probe.parts = <<>> => probe.result.value = FallbackAnswer
         /\ probe.parts # <<>> => probe.result.value = Arrived
    /\ (probe.op = "get_answer" /\ probe.ready /\ probe.raises) =>
         (probe.result.raised /\ probe.result.cause = "stream")

\* C13, amended: get_answer returns the fragments joined in arrival order
\* with the whitespace at both ends removed, and never an empty text: what
\* is returned is the stretch of the joined text from its first to its last
\* non-blank character, and the apology when there is no such character
\* (zero fragments, or blank fragments only); when the stream raises, it
\* fails with an error that carries the cause.
C13_JoinedInOrderTrimmed ==
    /\ Returned =>
         LET inked == { i \in 1..Len(Arrived) : Arrived[i] # " " }
         IN /\ probe.result.value # <<>>
            /\ inked = {} => probe.result.value = FallbackAnswer
            /\ inked # {} =>
                 \E i, j \in inked :
                   /\ \A k \in inked : i <= k /\ k <= j
                   /\ probe.result.value = SubSeq(Arrived, i, j)
    /\ (probe.op = "get_answer" /\ probe.ready /\ probe.raises) =>
         (probe.result.raised /\ probe.result.cause = "stream")

\* C13, witness: a stream of three fragments, the first of them blank, was
\* answered with the text of the other two, in their order.
C13_Witness ==
    /\ Returned
    /\ probe.parts = << <<" ">>, <<"a">>, <<"b">> >>
    /\ probe.result.value = <<"a", "b">>

\* The conversations whose Dialog state key has time left.
Alive == { c \in Chats : ttl[c] > 0 }

\* C14: a Dialog state key whose TTL runs out without a save in between is
\* dropped, so that get_active_dialogs_count counts exactly the keys with
\* time left and a statistics update whose store calls succeed writes that
\* count (a failed count writes 0); every save of a record gives its key the
\* full TTL again.
C14_ExpiredNotCounted ==
    [][/\ \A c \in Chats : (ttl[c] > 0 /\ ttl'[c] = 0) => dialogs'[c] = Absent
       /\ GetActiveDialogsCount(TRUE) = Cardinality(Alive)
       /\ stats' # stats =>
            /\ stats'.active_dialogs \in {0, Cardinality(Alive)}
            /\ probe'.io[2] => stats'.active_dialogs = Cardinality(Alive)
       /\ \A c \in Chats :
            (dialogs'[c] # Absent /\ dialogs'[c] # dialogs[c]) => ttl'[c] = DialogTtl]_vars

\* C14, witness: a statistics update that followed a tick in which a key
\* expired wrote the number of the keys still alive, the expired one not
\* among them.
C14_Witness ==
    /\ probe.op = "update_stats" /\ probe.after.op = "tick"
    /\ probe.after.expired # {} /\ probe.live # {}
    /\ probe.after.expired \cap probe.live = {}
    /\ stats # Absent
    /\ stats.active_dialogs = Cardinality(probe.live)

\* C15: a request to any endpoint of the monitoring API leaves the Dialog
\* state records with their TTLs, the statistics record and both queue
\* lists as they were.
C15_MonitorReadsOnly ==
    [][probe'.op \in Endpoints => UNCHANGED <<dialogs, ttl, stats, queues>>]_vars

\* C15, witness: the stats endpoint answered with the stored statistics
\* while a Dialog state record and a queued message were in the store.
C15_Witness ==
    /\ probe.op = "stats"
    /\ stats # Absent
    /\ probe.response.body = stats
    /\ queues.queue # <<>>
    /\ \E c \in Chats : dialogs[c] # Absent

\* A dispatch attempt ends in this step, with a reply or with a failure.
DispatchEnds == pc \in {"answer", "send"} /\ pc' = "chat"

\* C16: when a dispatch attempt ends and every store call succeeds, the
\* statistics record has total_messages one higher, exactly one of
\* completed_messages and failed_messages one higher, active_dialogs equal
\* to the number of Dialog state records and last_poll_time equal to the
\* present time; after a failed attempt last_error is that attempt's error.
C16_StatsAfterDispatch ==
    [][(DispatchEnds /\ faults' = faults) =>
         LET done == Stat(stats', "completed_messages") - Stat(stats, "completed_messages")
             fail == Stat(stats', "failed_messages") - Stat(stats, "failed_messages")
         IN /\ Stat(stats', "total_messages") = Stat(stats, "total_messages") + 1
            /\ <<done, fail>> \in {<<1, 0>>, <<0, 1>>}
            /\ Stat(stats', "active_dialogs") =
                 Cardinality({ c \in Chats : dialogs'[c] # Absent })
            /\ Stat(stats', "last_poll_time") = cycle
            /\ fail = 1 =>
                 Stat(stats', "last_error") = (IF pc = "answer" THEN "agent" ELSE "send")]_vars

\* The calls of a dispatch come in their order: get_answer after the save
\* of the Dialog state for the same message, send_message after get_answer
\* returned.
InOrder(c) ==
    LET ev == trace.chat[c].events
    IN \A i \in DOMAIN ev :
         /\ ev[i].op \in {"answer", "answer_failed"} =>
              (i > 1 /\ ev[i - 1].op = "save" /\ ev[i - 1].msg = ev[i].msg)
         /\ ev[i].op \in {"send", "send_failed"} =>
              (i > 1 /\ ev[i - 1].op = "answer" /\ ev[i - 1].msg = ev[i].msg)
         /\ ev[i].op = "save" =>
              (i = Len(ev) => (pc = "answer" /\ chat_id = c))

\* C17: within a dispatch the Dialog state is read or created, updated and
\* saved, then get_answer is called, then send_message; the record written
\* carries the message's id unless a store call failed or the key expired,
\* and a failure of get_answer or send_message leaves the Dialog state
\* records as they are.
C17_DispatchOrder ==
    [][/\ \A c \in Chats : InOrder(c)'
       /\ (pc = "dialog" /\ pc' = "answer" /\ faults' = faults) =>
            /\ dialogs'[chat_id] # Absent
            /\ dialogs'[chat_id].last_message_id = last_message.id
            /\ dialogs'[chat_id].last_activity = cycle
            /\ dialogs'[chat_id].message_count =
                 (IF dialogs[chat_id] = Absent THEN 0
                  ELSE dialogs[chat_id].message_count) + 1
       /\ DispatchEnds => dialogs' = dialogs]_vars

\* C17, witness: send_message failed after the Dialog state was saved, and
\* the record with the message's id is still stored.
C17_Witness ==
    \E c \in Chats :
      /\ Len(trace.chat[c].events) = 4
      /\ trace.chat[c].events[2].op = "save"
      /\ trace.chat[c].events[3].op = "answer"
      /\ trace.chat[c].events[4].op = "send_failed"
      /\ dialogs[c] # Absent
      /\ dialogs[c].last_message_id = trace.chat[c].events[2].msg

\* C18: a message whose dispatch failed is never selected again.
C18_FailedNeverRedispatched ==
    last_message # Absent => failures[last_message.id] = 0

\* C19: the Dialog state update always goes on to get_answer for the same
\* message, whatever its store calls do, and the dispatch then ends with
\* send_message or in the except clause of the dispatch, never in that of
\* the cycle; a reply that send_message delivered is delivered whatever the
\* statistics update does.
C19_StoreFailureDoesNotBlock ==
    [][\A c \in Chats : (pc \in {"dialog", "answer", "send"} /\ c = chat_id) =>
         /\ (pc = "dialog" /\ pc' # "dialog") =>
              /\ pc' = "answer"
              /\ last_message' = last_message /\ idx' = idx
              /\ "save" \in Ops(c)'
         /\ (pc = "answer" /\ pc' # "answer") => pc' \in {"send", "chat"}
         /\ (pc = "send" /\ pc' # "send") =>
              /\ pc' = "chat"
              /\ "send" \in Ops(c)' \/ "send_failed" \in Ops(c)'
              /\ "send" \in Ops(c)' =>
                   replies'[last_message.id] = replies[last_message.id] + 1]_vars

\* C19, witness: a store call of the Dialog state update failed and the
\* reply was sent all the same.
C19_Witness ==
    \E c \in Chats :
      /\ trace.chat[c].store = "failed"
      /\ Len(Calls(c, "send")) = 1

\* C22: a client call makes a token request only as its first exchange when
\* no token is cached, or right after a request that was answered 401; a
\* call that starts with a cached token and gets no 401 makes no token
\* request and leaves the token as it was; a re-authentication that fails
\* leaves the token cached that the 401 request carried.
C22_TokenOnlyWhenNeeded ==
    /\ \A i \in TokensAt :
         \/ i = 1 /\ call.before = NoToken
         \/ /\ i > 1
            /\ call.log[i - 1].kind = "request"
            /\ call.log[i - 1].status = 401
    /\ (call.before # NoToken /\ \A i \in RequestsAt : call.log[i].status # 401) =>
         (TokensAt = {} /\ access_token = call.before)
    /\ \A i \in TokensAt :
         (i > 1 /\ call.log[i].status # 200) => access_token = call.log[i - 1].bearer

\* C22, witness: a call that started with a cached token got a 401, its
\* token request failed, and the token cached is the one it started with.
C22_Witness ==
    /\ call.before # NoToken
    /\ \E i \in TokensAt :
         /\ i > 1
         /\ call.log[i - 1].status = 401
         /\ call.log[i].status # 200
    /\ access_token = call.before

\* C30: a client call makes at most two requests to its endpoint and at
\* most two token requests.
C30_AtMostTwoOfEach ==
    /\ Cardinality(RequestsAt) <= 2
    /\ Cardinality(TokensAt) <= 2

\* C30, witness: a call that started without a token made two token
\* requests and two requests to its endpoint.
C30_Witness ==
    /\ call.before = NoToken
    /\ Cardinality(RequestsAt) = 2
    /\ Cardinality(TokensAt) = 2

\* The message ids in the queue list or in the processing list.
InLists ==
    { queues.queue[i] : i \in DOMAIN queues.queue }
      \cup { queues.processing[i] : i \in DOMAIN queues.processing }

\* C24: a message id that enqueue_message put into the queue list stays in
\* the queue list or in the processing list until complete_message or
\* fail_message is called for it: it leaves the queue list only at its head,
\* into the processing list, and it leaves both lists only in a step of
\* complete_message or fail_message.
C24_AtLeastOnce ==
    [][\A m \in InLists :
         /\ m \notin InLists' => probe'.op = "complete_message"
         /\ (m \in { queues.queue[i] : i \in DOMAIN queues.queue }
               /\ m \notin { queues'.queue[i] : i \in DOMAIN queues'.queue }) =>
              (m = Head(queues.queue) /\ probe'.op = "dequeue_message")]_vars

\* The dispatch attempts made so far, delivered or failed.
RECURSIVE Attempts(_)
Attempts(ids) ==
    IF ids = {} THEN 0
    ELSE LET m == CHOOSE x \in ids : TRUE
         IN replies[m] + failures[m] + Attempts(ids \ {m})

\* C25: in the stored statistics record total_messages equals
\* completed_messages + failed_messages.
C25_TotalIsSum ==
    Stat(stats, "total_messages") =
      Stat(stats, "completed_messages") + Stat(stats, "failed_messages")

\* C25, witness: two dispatch attempts were made, one delivered and one
\* failed, and the record written after a failed read counts one message.
C25_Witness ==
    /\ Attempts(MsgIds) = 2
    /\ \E m \in MsgIds : replies[m] = 1
    /\ \E m \in MsgIds : failures[m] = 1
    /\ stats # Absent
    /\ stats.total_messages = 1
    /\ stats.completed_messages + stats.failed_messages = 1

Counters == {"total_messages", "completed_messages", "failed_messages"}

\* C26 as stated: no step lowers total_messages, completed_messages or
\* failed_messages of the stored record.
C26_CountersNeverDecrease ==
    [][\A f \in Counters : Stat(stats', f) >= Stat(stats, f)]_vars

\* C26, amended: a step in which every store call succeeds lowers none of
\* the three counters; a step in which a store call fails either lowers
\* none or, the read of get_stats having failed, writes a record counted
\* from zero, in which each of them is 0 or 1.
C26_CountersKeptWhileReadable ==
    [][/\ faults' = faults =>
            \A f \in Counters : Stat(stats', f) >= Stat(stats, f)
       /\ faults' # faults =>
            \/ \A f \in Counters : Stat(stats', f) >= Stat(stats, f)
            \/ \A f \in Counters : Stat(stats', f) \in {0, 1}]_vars

\* C26, witness: the record counts two messages, one completed and one
\* failed, and the second cycle's time.
C26_Witness ==
    /\ Stat(stats, "total_messages") = 2
    /\ Stat(stats, "completed_messages") = 1
    /\ Stat(stats, "failed_messages") = 1
    /\ Stat(stats, "last_poll_time") = 2

\* A cycle ends in this step in which every listed conversation was fetched
\* and none held a qualifying message.
QuietCycleEnds ==
    /\ pc = "chat" /\ pc' = "sleep"
    /\ trace'.poll = "ok"
    /\ \A c \in Chats : trace'.chat[c].fetch # "failed" /\ trace'.chat[c].qual = {}

\* C29 as stated: while the for-loop only skips or finds nothing to select
\* the statistics record is not written, and the end of a cycle without a
\* qualifying message comes with no call made for any conversation and
\* leaves the three counters and last_error as they were.
C29_QuietCycleKeepsCounters ==
    [][/\ (pc = "chat" /\ pc' = "chat") => stats' = stats
       /\ QuietCycleEnds =>
            /\ \A c \in Chats : trace'.chat[c].events = <<>> /\ trace'.chat[c].ack = "no"
            /\ \A f \in Counters \cup {"last_error"} : Stat(stats', f) = Stat(stats, f)]_vars

\* C29, amended: the same when every store call of the statistics update
\* succeeds, last_poll_time then being the time of the cycle and
\* active_dialogs the number of Dialog state records; when a store call
\* fails, the counters and last_error are either as they were or, the read
\* of get_stats having failed, zero and None.
C29_QuietCycleKeepsCountersIfRead ==
    [][/\ (pc = "chat" /\ pc' = "chat") => stats' = stats
       /\ QuietCycleEnds =>
            /\ \A c \in Chats : trace'.chat[c].events = <<>> /\ trace'.chat[c].ack = "no"
            /\ faults' = faults =>
                 /\ \A f \in Counters \cup {"last_error"} : Stat(stats', f) = Stat(stats, f)
                 /\ Stat(stats', "last_poll_time") = cycle
                 /\ Stat(stats', "active_dialogs") =
                      Cardinality({ c \in Chats : dialogs[c] # Absent })
            /\ faults' # faults =>
                 \/ \A f \in Counters \cup {"last_error"} : Stat(stats', f) = Stat(stats, f)
                 \/ /\ \A f \in Counters : Stat(stats', f) = 0
                    /\ Stat(stats', "last_error") = None]_vars

\* C29, witness: the second cycle is over, its one listed conversation was
\* fetched and held nothing that qualifies, and the record still counts the
\* failed message of the first cycle with its error.
C29_Witness ==
    /\ pc = "sleep" /\ cycle = 2 /\ trace.poll = "ok"
    /\ Len(unread_chats) = 1 /\ unread_chats[1] # NoId
    /\ trace.chat[unread_chats[1]].fetch = "done"
    /\ \A c \in Chats : trace.chat[c].qual = {}
    /\ Stat(stats, "total_messages") = 1
    /\ Stat(stats, "failed_messages") = 1
    /\ Stat(stats, "last_error") = "agent"
    /\ Stat(stats, "last_poll_time") = 2

\* C21: once a token request has failed in a cycle, nothing more is done
\* for any conversation in that cycle: no fetch, no acknowledgement, no
\* Dialog state update, no get_answer, no send_message.
C21_TokenFailureEndsCycle ==
    [][(trace.auth /\ trace'.auth) => trace'.chat = trace.chat]_vars

\* Nothing is left to do for a conversation with this history: it was
\* fetched and either nothing was selected or its dispatch has ended.
Finished(t) ==
    /\ t.fetch = "done"
    /\ \/ t.events = <<>>
       \/ t.events[Len(t.events)].op \in {"send", "send_failed", "answer_failed"}

\* What the conversation the for-loop is at has behind it, by the position
\* of the coroutine.
InProgress(t) ==
    CASE pc = "chat" -> t = NoTrace
      [] pc = "mark" -> t.fetch = "done" /\ t.events = <<>>
      [] pc = "dialog" -> t.events # <<>> /\ t.events[Len(t.events)].op = "mark"
      [] pc = "answer" -> t.events # <<>> /\ t.events[Len(t.events)].op = "save"
      [] pc = "send" -> t.events # <<>> /\ t.events[Len(t.events)].op = "answer"
      [] pc = "sleep" -> t.fetch = "failed" /\ t.events = <<>>
      [] OTHER -> FALSE

\* C23: the conversations of a listing are handled one at a time, in the
\* order of the listing: for every conversation listed before the one the
\* for-loop is at nothing is left to do, for every one listed after it
\* nothing has been done, and for a conversation that is not listed nothing
\* is done at all.
C23_OneAtATime ==
    /\ \A i \in 1..Len(unread_chats) :
         unread_chats[i] # NoId =>
           LET t == trace.chat[unread_chats[i]]
           IN /\ i < idx => Finished(t)
              /\ i = idx => InProgress(t)
              /\ i > idx => t = NoTrace
    /\ \A c \in Chats :
         (\A i \in 1..Len(unread_chats) : unread_chats[i] # c) => trace.chat[c] = NoTrace

\* C23, witness: the reply for the first of two listed conversations was
\* sent, and get_answer is about to be called for the second.
C23_Witness ==
    /\ pc = "answer" /\ idx = 2 /\ Len(unread_chats) = 2
    /\ unread_chats[1] # NoId /\ unread_chats[2] # NoId
    /\ Len(Calls(unread_chats[1], "send")) = 1
    /\ Len(Calls(unread_chats[2], "save")) = 1

\* C27: get_answer is called only while the agent client is entered: no
\* call of it, returning or raising, comes after stop() has exited the
\* agent client.
C27_NoAnswerAfterClose ==
    [][(pc = "answer" /\ pc' \in {"send", "chat"}) => agent = "open"]_vars

\* C28: the MCP client's __aexit__ is called at most once, however many
\* stop signals arrive.
C28_ReleasedAtMostOnce == exits <= 1

====
